---- MODULE Spec2Model ----
(***************************************************************************)
(* Model of the ngo chaincode (src/unnamed/part_001): the world state as   *)
(* an ordered key-value store, the general functions queryByKey and        *)
(* queryByString, the spend allocation allocateSpend, and the chaincode    *)
(* functions createNGO, createDonor, createDonation and createSpend as     *)
(* dispatched by Chaincode.Invoke.                                         *)
(*                                                                         *)
(* Numbers.  The chaincode computes with JavaScript numbers, i.e. binary   *)
(* floating point with round-to-nearest-even and gradual underflow.  The   *)
(* model keeps that arithmetic at a reduced precision: a number is an      *)
(* integer count of the smallest positive value of the format, and a       *)
(* value is representable when its magnitude has at most MantBits          *)
(* significant bits (IEEE double: 53).  Every arithmetic operator of the   *)
(* code (+, -, /) is the exact operation followed by rounding.             *)
(*                                                                         *)
(* Keys.  A key is <<prefix, a, b>>: the prefix the code prepends          *)
(* ('ngo', 'donor', 'donation', 'spend', 'spendAllocation') and the        *)
(* natural id; for a spendAllocation the id is txid + '-' + counter,       *)
(* kept as a = txid and b = counter.  The code builds a key by string      *)
(* concatenation, so the key of a Spend whose spendId is the text          *)
(* 'Allocation' + txid + '-' + counter is the key of a spendAllocation:    *)
(* such a spendId is written AllocationId(txid, counter).                  *)
(***************************************************************************)
EXTENDS Integers, Sequences, FiniteSets, TLC

VARIABLES store, last, usedTx, pending

vars == <<store, last, usedTx, pending>>

(***************************************************************************)
(* Bounds of the model.                                                    *)
(***************************************************************************)
MantBits == 3
MaxDonation == 3
MaxTx == 2
MaxRounds == 40
MaxPending == 2

NGOs == {1, 2}
Donors == {1}
DonationIds == 1..MaxDonation
\* spendId 0 stands for an absent or empty spendId
SpendIds == {0, 1}
TxIds == 1..MaxTx

(***************************************************************************)
(* JavaScript number arithmetic at precision MantBits.                     *)
(***************************************************************************)
RECURSIVE Pow2(_)
Pow2(n) == IF n = 0 THEN 1 ELSE 2 * Pow2(n - 1)

Abs(x) == IF x < 0 THEN -x ELSE x

Sign(x) == IF x < 0 THEN -1 ELSE 1

\* the exponent of the binade of q: the least k with q \div 2^k < 2^MantBits
RECURSIVE Shift(_)
Shift(q) == IF q < Pow2(MantBits) THEN 0 ELSE 1 + Shift(q \div 2)

\* num/den (num >= 0, den > 0) rounded to the nearest representable value,
\* ties to the even significand
RoundMag(num, den) ==
  LET k == Shift(num \div den)
      d == den * Pow2(k)
      f == num \div d
      r == num % d
      n == IF 2 * r < d THEN f
           ELSE IF 2 * r > d THEN f + 1
           ELSE IF f % 2 = 0 THEN f ELSE f + 1
  IN n * Pow2(k)

Round(x) == Sign(x) * RoundMag(Abs(x), 1)

FAdd(a, b) == Round(a + b)

FSub(a, b) == Round(a - b)

\* a / n for a count n >= 1
FDiv(a, n) == Sign(a) * RoundMag(Abs(a), n)

(***************************************************************************)
(* The world state: getState, putState, getStateByRange.                   *)
(***************************************************************************)
\* the spendId 'Allocation' + txid + '-' + counter
AllocationId(txid, counter) == 100 + 10 * txid + counter

IsAllocationId(id) == id >= 100

\* the natural id 'z' + n, an id whose first character is the last one of
\* the range the scan bounds are built for
ZId(n) == 50 + n

StartsWithZ(id) == id >= 50 /\ id < 100

\* prefix + natural id
Key(p, a, b) ==
  IF p = "spend" /\ IsAllocationId(a)
  THEN <<"spendAllocation", (a - 100) \div 10, (a - 100) % 10>>
  ELSE <<p, a, b>>

\* stub.getState(key).toString() is non-empty
Has(st, key) == key \in DOMAIN st

\* the effect of stub.putState(key, value) on a state
Put(st, key, value) ==
  [k \in DOMAIN st \cup {key} |-> IF k = key THEN value ELSE st[k]]

\* byte order of the key prefixes, the natural id starting with a digit
PrefixRank(p) ==
  CASE p = "donation" -> 1
    [] p = "donor" -> 2
    [] p = "ngo" -> 3
    [] p = "spend" -> 4
    [] p = "spendAllocation" -> 5

\* order of two decimal numerals below 100 as strings ('10' < '2')
DecLess(x, y) ==
  IF (x < 10) = (y < 10) THEN x < y
  ELSE IF x < 10 THEN x <= y \div 10
  ELSE x \div 10 < y

\* byte order of two keys
KeyLess(k1, k2) ==
  IF k1[1] # k2[1] THEN PrefixRank(k1[1]) < PrefixRank(k2[1])
  ELSE IF k1[2] # k2[2] THEN k1[2] < k2[2]
  ELSE DecLess(k1[3], k2[3])

\* the keys between docType + "0" and docType + "z": the keys the code builds
\* from docType, and every key whose prefix continues docType with a
\* character of that range ('spendAllocation...' lies within 'spend0'..'spendz')
ScanPrefixes(docType) ==
  IF docType = "spend" THEN {"spend", "spendAllocation"} ELSE {docType}

\* the keys in descending order
RECURSIVE SortKeysDescending(_)
SortKeysDescending(S) ==
  IF S = {} THEN <<>>
  ELSE LET m == CHOOSE k \in S : \A o \in S \ {k} : KeyLess(o, k)
       IN <<m>> \o SortKeysDescending(S \ {m})

RECURSIVE SortKeys(_)
SortKeys(S) ==
  IF S = {} THEN <<>>
  ELSE LET m == CHOOSE k \in S : \A o \in S \ {k} : KeyLess(k, o)
       IN <<m>> \o SortKeys(S \ {m})

\* startKey <= key < endKey for startKey = docType + "0" and endKey =
\* docType + "z": a key docType + 'z...' is not below endKey
InRange(docType, k) ==
  /\ k[1] \in ScanPrefixes(docType)
  /\ ~(k[1] = docType /\ StartsWithZ(k[2]))

\* stub.getStateByRange(docType + "0", docType + "z"): the keys in key order
GetStateByRange(st, docType) ==
  SortKeys({k \in DOMAIN st : InRange(docType, k)})

(***************************************************************************)
(* General functions.                                                      *)
(***************************************************************************)
\* queryByKey throws when the key has no value
queryByKeyThrows(st, key) == ~Has(st, key)

\* a filter that only looks for the field, not for its value
MatchesAnyValue(rec, field, value) == field \in DOMAIN rec

\* the filter of queryByString for a selector with docType and one more
\* field: the record has the field and its value equals the selector's
Matches(rec, field, value) ==
  field \in DOMAIN rec /\ rec[field] = value

\* A stored payload is the JSON text of a record, written as the record, or
\* bytes that JSON.parse rejects, written [raw |-> bytes].  The Record of a
\* row is the parsed record, or the payload itself when parsing throws.
IsRaw(payload) == "raw" \in DOMAIN payload

\* a scan that drops the entries whose payload does not parse
queryByDocTypeSkipsUnparsed(st, docType) ==
  LET keys == SelectSeq(GetStateByRange(st, docType), LAMBDA k : ~IsRaw(st[k]))
  IN [i \in 1..Len(keys) |-> [Key |-> keys[i], Record |-> st[keys[i]]]]

\* queryByString with selector {docType}: every entry of the scan
queryByDocType(st, docType) ==
  LET keys == GetStateByRange(st, docType)
  IN [i \in 1..Len(keys) |-> [Key |-> keys[i], Record |-> st[keys[i]]]]

\* queryByString with selector {docType, field: value}: the matching
\* entries {Key, Record} in scan order
queryByString(st, docType, field, value) ==
  LET keys == GetStateByRange(st, docType)
      hit == SelectSeq(keys, LAMBDA k : Matches(st[k], field, value))
  IN [i \in 1..Len(hit) |-> [Key |-> hit[i], Record |-> st[hit[i]]]]

\* queryByString with any selector: selector maps the fields given besides
\* docType to their values.  With docType alone every entry of the scan is a
\* row; otherwise the loop over the selector's fields pushes the entry once
\* for every field it matches.
RECURSIVE FilterRows(_, _, _, _)
FilterRows(st, keys, selector, i) ==
  IF i > Len(keys) THEN <<>>
  ELSE LET pushes == Cardinality({f \in DOMAIN selector :
                                    Matches(st[keys[i]], f, selector[f])})
       IN [n \in 1..pushes |-> [Key |-> keys[i], Record |-> st[keys[i]]]]
            \o FilterRows(st, keys, selector, i + 1)

queryBySelector(st, docType, selector) ==
  IF DOMAIN selector = {} THEN queryByDocType(st, docType)
  ELSE FilterRows(st, GetStateByRange(st, docType), selector, 1)

(***************************************************************************)
(* allocateSpend.  A request is [spendId, spendAmount, ngoRegistration-     *)
(* Number]; spendAmount is [t, v]: a finite number v (t = "num"), an       *)
(* infinite number (t = "inf", JSON 1e999), a string (t = "str") or        *)
(* absent (t = "none").  The result is the outcome and the writes issued   *)
(* (putState calls in order) up to the point the function ended.           *)
(***************************************************************************)
\* spend['spendAmount'] && typeof spend['spendAmount'] === 'number'
\*   && isFinite(spend['spendAmount'])
ValidAmount(amt) == amt.t = "num" /\ amt.v # 0

\* totals of the donations found for the NGO, added in scan order
RECURSIVE TotalDonations(_, _)
TotalDonations(dons, n) ==
  IF n = 0 THEN 0
  ELSE FAdd(TotalDonations(dons, n - 1), dons[n].Record.donationAmount)

\* totalSpend is NaN: a record found by the spendAllocation query has no
\* spendAllocationAmount, and a number plus undefined is NaN
TotalSpendIsNaN(allocs) ==
  \E i \in 1..Len(allocs) : "spendAllocationAmount" \notin DOMAIN allocs[i].Record

\* total of the spend allocations found for the NGO, added in scan order
\* (the value when it is a number)
RECURSIVE TotalSpend(_, _)
TotalSpend(allocs, n) ==
  IF n = 0 THEN 0
  ELSE IF "spendAllocationAmount" \notin DOMAIN allocs[n].Record
  THEN TotalSpend(allocs, n - 1)
  ELSE FAdd(TotalSpend(allocs, n - 1), allocs[n].Record.spendAllocationAmount)

\* donationSpendMap after the first n allocations: the amount already spent
\* per donation id (0 for an id without entry); a record without donationId
\* goes under the key undefined, which is no donation's id
RECURSIVE DonationSpendMap(_, _)
DonationSpendMap(allocs, n) ==
  IF n = 0 THEN [d \in DonationIds |-> 0]
  ELSE LET m == DonationSpendMap(allocs, n - 1)
           r == allocs[n].Record
       IN IF "donationId" \notin DOMAIN r THEN m
          ELSE [m EXCEPT ![r.donationId] = FAdd(@, r.spendAllocationAmount)]

\* the number of donations which still have funds available
NumberOfDonations(dons, spent) ==
  Cardinality({i \in 1..Len(dons) :
     FSub(dons[i].Record.donationAmount, spent[dons[i].Record.donationId]) > 0})

\* a spendAllocation record whose id leaves out the recordCounter
SpendAllocationRecordNoCounter(spend, txid, counter, donationId, amount) ==
  [docType |-> "spendAllocation",
   spendAllocationId |-> <<txid, 0>>,
   spendAllocationAmount |-> amount,
   donationId |-> donationId,
   ngoRegistrationNumber |-> spend.ngoRegistrationNumber,
   spendId |-> spend.spendId]

SpendAllocationRecord(spend, txid, counter, donationId, amount) ==
  [docType |-> "spendAllocation",
   spendAllocationId |-> <<txid, counter>>,
   spendAllocationAmount |-> amount,
   donationId |-> donationId,
   ngoRegistrationNumber |-> spend.ngoRegistrationNumber,
   spendId |-> spend.spendId]

\* the for loop over donationMap of one round, from donation i on;
\* c is [spendAmount, spent, recordCounter, writes]
RECURSIVE AllocateRound(_, _, _, _, _, _)
AllocateRound(spend, txid, dons, spendPerDonation, i, c) ==
  IF i > Len(dons) THEN c
  ELSE
    LET donationId == dons[i].Record.donationId
        availableAmountForDonor ==
          FSub(dons[i].Record.donationAmount, c.spent[donationId])
        amountAllocatedToDonation ==
          IF availableAmountForDonor >= spendPerDonation THEN spendPerDonation
          ELSE IF availableAmountForDonor > 0 THEN availableAmountForDonor
          ELSE 0
        rec == SpendAllocationRecord(spend, txid, c.recordCounter, donationId,
                                     amountAllocatedToDonation)
        next ==
          IF availableAmountForDonor >= spendPerDonation
             \/ availableAmountForDonor > 0
          THEN [spendAmount |-> FSub(c.spendAmount, amountAllocatedToDonation),
                spent |-> [c.spent EXCEPT
                             ![donationId] = FAdd(@, amountAllocatedToDonation)],
                recordCounter |-> c.recordCounter + 1,
                writes |-> Append(c.writes,
                   <<Key("spendAllocation", txid, c.recordCounter), rec>>)]
          ELSE c
    IN AllocateRound(spend, txid, dons, spendPerDonation, i + 1, next)

\* the while (true) loop; rounds counts the rounds completed
RECURSIVE AllocateLoop(_, _, _, _, _)
AllocateLoop(spend, txid, dons, c, rounds) ==
  IF c.spendAmount <= 0 THEN [outcome |-> "ok", writes |-> c.writes, rounds |-> rounds]
  ELSE IF rounds >= MaxRounds
       THEN [outcome |-> "unbounded", writes |-> c.writes, rounds |-> rounds]
  ELSE
    LET numberOfDonations == NumberOfDonations(dons, c.spent)
        spendPerDonation == FDiv(c.spendAmount, numberOfDonations)
    IN IF c.spendAmount = 0
       THEN [outcome |-> "err_spendAmount", writes |-> c.writes,
             rounds |-> rounds]
       ELSE IF ~(numberOfDonations > 0)
       THEN [outcome |-> "err_numberOfDonations", writes |-> c.writes,
             rounds |-> rounds]
       ELSE IF spendPerDonation = 0
       THEN [outcome |-> "err_spendPerDonation", writes |-> c.writes,
             rounds |-> rounds]
       ELSE AllocateLoop(spend, txid, dons,
              AllocateRound(spend, txid, dons, spendPerDonation, 1, c),
              rounds + 1)

SpendRecord(spend) ==
  [docType |-> "spend", spendId |-> spend.spendId,
   spendAmount |-> spend.spendAmount,
   ngoRegistrationNumber |-> spend.ngoRegistrationNumber]

\* allocateSpend without the check that the spendId is present
allocateSpendNoIdCheck(st, spend, txid) ==
  LET ngo == spend.ngoRegistrationNumber
      dons == queryByString(st, "donation", "ngoRegistrationNumber", ngo)
      allocs == queryByString(st, "spendAllocation", "ngoRegistrationNumber", ngo)
      totalDonations == TotalDonations(dons, Len(dons))
      totalSpend == TotalSpend(allocs, Len(allocs))
      totalAvailable == FSub(totalDonations, totalSpend)
      first == <<<<Key("spend", spend.spendId, 0), SpendRecord(spend)>>>>
  IN IF ~ValidAmount(spend.spendAmount)
     THEN [outcome |-> "invalid_amount", writes |-> <<>>, rounds |-> 0]
     ELSE IF queryByKeyThrows(st, Key("ngo", ngo, 0))
     THEN [outcome |-> "key_does_not_exist", writes |-> <<>>, rounds |-> 0]
     ELSE IF ~TotalSpendIsNaN(allocs) /\ spend.spendAmount.v > totalAvailable
     THEN [outcome |-> "insufficient_funds", writes |-> <<>>, rounds |-> 0]
     ELSE AllocateLoop(spend, txid, dons,
            [spendAmount |-> spend.spendAmount.v,
             spent |-> DonationSpendMap(allocs, Len(allocs)),
             recordCounter |-> 0,
             writes |-> first],
            0)

allocateSpend(st, spend, txid) ==
  LET ngo == spend.ngoRegistrationNumber
      dons == queryByString(st, "donation", "ngoRegistrationNumber", ngo)
      allocs == queryByString(st, "spendAllocation", "ngoRegistrationNumber", ngo)
      totalDonations == TotalDonations(dons, Len(dons))
      totalSpend == TotalSpend(allocs, Len(allocs))
      totalAvailable == FSub(totalDonations, totalSpend)
      first == <<<<Key("spend", spend.spendId, 0), SpendRecord(spend)>>>>
  IN IF ~ValidAmount(spend.spendAmount)
     THEN [outcome |-> "invalid_amount", writes |-> <<>>, rounds |-> 0]
     ELSE IF spend.spendId = 0
     THEN [outcome |-> "missing_spendId", writes |-> <<>>, rounds |-> 0]
     ELSE IF queryByKeyThrows(st, Key("ngo", ngo, 0))
     THEN [outcome |-> "key_does_not_exist", writes |-> <<>>, rounds |-> 0]
     ELSE IF ~TotalSpendIsNaN(allocs) /\ spend.spendAmount.v > totalAvailable
     THEN [outcome |-> "insufficient_funds", writes |-> <<>>, rounds |-> 0]
     ELSE AllocateLoop(spend, txid, dons,
            [spendAmount |-> spend.spendAmount.v,
             spent |-> DonationSpendMap(allocs, Len(allocs)),
             recordCounter |-> 0,
             writes |-> first],
            0)

(***************************************************************************)
(* Chaincode functions.  Each returns the outcome and the writes issued.   *)
(***************************************************************************)
NoWrites(outcome) == [outcome |-> outcome, writes |-> <<>>, rounds |-> 0]

createNGO(st, json) ==
  LET key == Key("ngo", json.ngoRegistrationNumber, 0)
  IN IF Has(st, key) THEN NoWrites("already_exists")
     ELSE [outcome |-> "ok", rounds |-> 0,
           writes |-> <<<<key, [docType |-> "ngo",
              ngoRegistrationNumber |-> json.ngoRegistrationNumber]>>>>]

createDonor(st, json) ==
  LET key == Key("donor", json.donorUserName, 0)
  IN IF Has(st, key) THEN NoWrites("already_exists")
     ELSE [outcome |-> "ok", rounds |-> 0,
           writes |-> <<<<key, [docType |-> "donor",
              donorUserName |-> json.donorUserName]>>>>]

\* createDonation without the check that the donor exists
createDonationNoDonorCheck(st, json) ==
  LET key == Key("donation", json.donationId, 0)
  IN IF ~Has(st, Key("ngo", json.ngoRegistrationNumber, 0))
     THEN NoWrites("ngo_not_found")
     ELSE IF Has(st, key) THEN NoWrites("already_exists")
     ELSE [outcome |-> "ok", rounds |-> 0,
           writes |-> <<<<key, [docType |-> "donation",
              donationId |-> json.donationId,
              donationAmount |-> json.donationAmount,
              donorUserName |-> json.donorUserName,
              ngoRegistrationNumber |-> json.ngoRegistrationNumber]>>>>]

createDonation(st, json) ==
  LET key == Key("donation", json.donationId, 0)
  IN IF ~Has(st, Key("ngo", json.ngoRegistrationNumber, 0))
     THEN NoWrites("ngo_not_found")
     ELSE IF ~Has(st, Key("donor", json.donorUserName, 0))
     THEN NoWrites("donor_not_found")
     ELSE IF Has(st, key) THEN NoWrites("already_exists")
     ELSE [outcome |-> "ok", rounds |-> 0,
           writes |-> <<<<key, [docType |-> "donation",
              donationId |-> json.donationId,
              donationAmount |-> json.donationAmount,
              donorUserName |-> json.donorUserName,
              ngoRegistrationNumber |-> json.ngoRegistrationNumber]>>>>]

\* createSpend without the check that the NGO exists
createSpendNoNGOCheck(st, json, txid) ==
  LET key == Key("spend", json.spendId, 0)
      r == allocateSpend(st, json, txid)
  IN IF Has(st, key) THEN NoWrites("already_exists")
     ELSE IF r.outcome # "ok" THEN r
     ELSE [r EXCEPT !.writes = Append(@, <<key, SpendRecord(json)>>)]

\* createSpend without the check that the Spend does not exist yet
createSpendNoDuplicateCheck(st, json, txid) ==
  LET key == Key("spend", json.spendId, 0)
      r == allocateSpend(st, json, txid)
  IN IF ~Has(st, Key("ngo", json.ngoRegistrationNumber, 0))
     THEN NoWrites("ngo_not_found")
     ELSE IF r.outcome # "ok" THEN r
     ELSE [r EXCEPT !.writes = Append(@, <<key, SpendRecord(json)>>)]

createSpend(st, json, txid) ==
  LET key == Key("spend", json.spendId, 0)
      r == allocateSpend(st, json, txid)
  IN IF ~Has(st, Key("ngo", json.ngoRegistrationNumber, 0))
     THEN NoWrites("ngo_not_found")
     ELSE IF Has(st, key) THEN NoWrites("already_exists")
     ELSE IF r.outcome # "ok" THEN r
     ELSE [r EXCEPT !.writes = Append(@, <<key, SpendRecord(json)>>)]

(***************************************************************************)
(* Chaincode.Invoke: a function that throws ends the transaction with      *)
(* shim.error and none of its writes is committed; otherwise the writes    *)
(* are committed, in order, as one unit.                                   *)
(***************************************************************************)
RECURSIVE Commit(_, _, _)
Commit(st, writes, n) ==
  IF n = 0 THEN st
  ELSE Put(Commit(st, writes, n - 1), writes[n][1], writes[n][2])

\* an Invoke that commits the writes issued before the error
InvokeCommitsOnError(st, r) == Commit(st, r.writes, Len(r.writes))

Invoke(st, r) ==
  IF r.outcome = "ok" THEN Commit(st, r.writes, Len(r.writes)) ELSE st

(***************************************************************************)
(* The state machine.  last is the latest invocation: the function, its    *)
(* arguments, the transaction id (0 when nothing was written), whether     *)
(* the invocation before it was a createSpend carrying the same spendId,   *)
(* the outcome and the writes (for a query, the rows of the response).     *)
(* usedTx holds the transaction ids of the committed spends, and pending   *)
(* the spend transactions executed but not yet committed.                  *)
(***************************************************************************)
Num(v) == [t |-> "num", v |-> v]

\* transaction ids are unique: usedTx holds those of the committed spends
FreshTxIds == TxIds \ usedTx

Result(fcn, args, txid, again, r) ==
  [fcn |-> fcn, args |-> args,
   txid |-> IF r.outcome = "ok" THEN txid ELSE 0,
   again |-> again,
   outcome |-> r.outcome, writes |-> r.writes, rounds |-> r.rounds]

\* the response of a query function: the payload is the sequence of rows
QueryResult(fcn, args, rows) ==
  [fcn |-> fcn, args |-> args, txid |-> 0, again |-> FALSE,
   outcome |-> "ok", writes |-> <<>>, rounds |-> 0, rows |-> rows]

Init ==
  /\ store = <<>>
  /\ last = Result("Init", <<>>, 0, FALSE, NoWrites("ok"))
  /\ usedTx = {}
  /\ pending = {}

InvokeCreateNGO(ngos) ==
  \E n \in ngos :
    LET json == [ngoRegistrationNumber |-> n]
        r == createNGO(store, json)
    IN /\ store' = Invoke(store, r)
       /\ last' = Result("createNGO", json, 0, FALSE, r)
       /\ UNCHANGED <<usedTx, pending>>

InvokeCreateDonor(donors) ==
  \E d \in donors :
    LET json == [donorUserName |-> d]
        r == createDonor(store, json)
    IN /\ store' = Invoke(store, r)
       /\ last' = Result("createDonor", json, 0, FALSE, r)
       /\ UNCHANGED <<usedTx, pending>>

InvokeCreateDonation(ids, amounts, donors, ngos) ==
  \E id \in ids, amt \in amounts, d \in donors, n \in ngos :
    LET json == [donationId |-> id, donationAmount |-> amt,
                 donorUserName |-> d, ngoRegistrationNumber |-> n]
        r == createDonation(store, json)
    IN /\ store' = Invoke(store, r)
       /\ last' = Result("createDonation", json, 0, FALSE, r)
       /\ UNCHANGED <<usedTx, pending>>

InvokeCreateSpend(ids, amounts, ngos) ==
  \E id \in ids, amt \in amounts, n \in ngos, txid \in FreshTxIds :
    LET json == [spendId |-> id, spendAmount |-> amt,
                 ngoRegistrationNumber |-> n]
        r == createSpend(store, json, txid)
        again == last.fcn = "createSpend" /\ last.args.spendId = id
    IN /\ store' = Invoke(store, r)
       /\ last' = Result("createSpend", json, txid, again, r)
       /\ usedTx' = IF r.outcome = "ok" THEN usedTx \cup {txid} ELSE usedTx
       /\ UNCHANGED pending

InvokeQueryAllDonations ==
  /\ last' = QueryResult("queryAllDonations", <<>>,
                          queryByDocType(store, "donation"))
  /\ UNCHANGED <<store, usedTx, pending>>

InvokeQueryDonationsForNGO(ngos) ==
  \E n \in ngos :
    LET json == [ngoRegistrationNumber |-> n]
    IN /\ last' = QueryResult("queryDonationsForNGO", json,
            queryByString(store, "donation", "ngoRegistrationNumber", n))
       /\ UNCHANGED <<store, usedTx, pending>>

InvokeQueryAllSpend ==
  /\ last' = QueryResult("queryAllSpend", <<>>, queryByDocType(store, "spend"))
  /\ UNCHANGED <<store, usedTx, pending>>

InvokeQuerySpendForNGO(ngos) ==
  \E n \in ngos :
    LET json == [ngoRegistrationNumber |-> n]
    IN /\ last' = QueryResult("querySpendForNGO", json,
            queryByString(store, "spend", "ngoRegistrationNumber", n))
       /\ UNCHANGED <<store, usedTx, pending>>

\* queryDonation: the point lookup of the key 'donation' + donationId.  The
\* response is the stored payload, or the error thrown by queryByKey
InvokeQueryDonation(ids) ==
  \E id \in ids :
    LET json == [donationId |-> id]
        key == Key("donation", id, 0)
    IN /\ last' = IF queryByKeyThrows(store, key)
                  THEN [QueryResult("queryDonation", json, <<>>)
                          EXCEPT !.outcome = "key_does_not_exist"]
                  ELSE QueryResult("queryDonation", json, <<store[key]>>)
       /\ UNCHANGED <<store, usedTx, pending>>

\* queryByString applied to the store with a selector of the given docType
ApplyQueryByString(docType, selectors) ==
  \E selector \in selectors :
    /\ last' = QueryResult("queryByString",
                  [docType |-> docType, selector |-> selector],
                  queryBySelector(store, docType, selector))
    /\ UNCHANGED <<store, usedTx, pending>>

(***************************************************************************)
(* Spec: every function, two NGOs, every kind of spendAmount.              *)
(***************************************************************************)
DonationAmounts == {-1, 8}

SpendAmounts ==
  {Num(v) : v \in {-1, 0, 1, 3}} \cup {[t |-> k, v |-> 0] : k \in {"inf", "str"}}

Next ==
  \/ InvokeCreateNGO(NGOs)
  \/ InvokeCreateDonor(Donors)
  \/ InvokeCreateDonation({1, 2}, DonationAmounts, Donors, NGOs)
  \/ InvokeCreateSpend(SpendIds, SpendAmounts, NGOs)

Spec == Init /\ [][Next]_vars

(***************************************************************************)
(* SpecAlloc: the allocation arithmetic for one NGO, with donation and     *)
(* spend amounts on both sides of the precision of the number format.      *)
(***************************************************************************)
AllocDonationAmounts == {1, 16}

AllocSpendAmounts == {Num(v) : v \in {10, 16}}

NextAlloc ==
  \/ InvokeCreateNGO({1})
  \/ InvokeCreateDonor({1})
  \/ InvokeCreateDonation(DonationIds, AllocDonationAmounts, {1}, {1})
  \/ InvokeCreateSpend({1, 2}, AllocSpendAmounts, {1})

SpecAlloc == Init /\ [][NextAlloc]_vars

(***************************************************************************)
(* SpecConc: spend requests executed against a snapshot and committed      *)
(* later.  A createSpend that succeeds on the current store becomes a      *)
(* pending transaction holding the snapshot it read and the writes it      *)
(* issued; the commit of a pending transaction applies its writes as one   *)
(* unit when what it read is unchanged, and discards it otherwise.  What   *)
(* a createSpend reads: the NGO key and the Spend key (getState), and the  *)
(* donation and spendAllocation ranges (getStateByRange).                  *)
(***************************************************************************)
\* the entries of a range scan: the keys in range and their payloads
RangeRead(st, docType) ==
  [k \in {x \in DOMAIN st : InRange(docType, x)} |-> st[k]]

\* the payload read by getState, <<>> for an absent key
PointRead(st, k) == IF Has(st, k) THEN <<st[k]>> ELSE <<>>

\* what createSpend read in the snapshot reads the same in the state st
ReadSetUnchanged(snapshot, st, json) ==
  /\ \A k \in {Key("ngo", json.ngoRegistrationNumber, 0),
                Key("spend", json.spendId, 0)} :
       PointRead(snapshot, k) = PointRead(st, k)
  /\ \A docType \in {"donation", "spendAllocation"} :
       RangeRead(snapshot, docType) = RangeRead(st, docType)

SimulateCreateSpend(ids, amounts, ngos) ==
  \E id \in ids, amt \in amounts, n \in ngos,
     txid \in FreshTxIds \ {t.txid : t \in pending} :
    LET json == [spendId |-> id, spendAmount |-> amt,
                 ngoRegistrationNumber |-> n]
        r == createSpend(store, json, txid)
    IN /\ Cardinality(pending) < MaxPending
       /\ r.outcome = "ok"
       /\ pending' = pending \cup
            {[json |-> json, txid |-> txid, snapshot |-> store,
              writes |-> r.writes]}
       /\ last' = Result("simulateCreateSpend", json, txid, FALSE, r)
       /\ UNCHANGED <<store, usedTx>>

CommitPending ==
  \E t \in pending :
    LET valid == ReadSetUnchanged(t.snapshot, store, t.json)
    IN /\ store' = IF valid THEN Commit(store, t.writes, Len(t.writes))
                   ELSE store
       /\ pending' = pending \ {t}
       /\ usedTx' = usedTx \cup {t.txid}
       /\ last' = [fcn |-> "commit", args |-> t.json, txid |-> t.txid,
                   again |-> FALSE,
                   outcome |-> IF valid THEN "ok" ELSE "read_conflict",
                   writes |-> t.writes, rounds |-> 0]

ConcDonationAmounts == {1, 16}

ConcSpendAmounts == {Num(v) : v \in {10, 16}}

NextConc ==
  \/ InvokeCreateNGO({1})
  \/ InvokeCreateDonor({1})
  \/ InvokeCreateDonation({1, 2}, ConcDonationAmounts, {1}, {1})
  \/ SimulateCreateSpend({1, 2}, ConcSpendAmounts, {1})
  \/ CommitPending

SpecConc == Init /\ [][NextConc]_vars

(***************************************************************************)
(* SpecKeys: keys and queries.  Two NGOs, spendIds that are plain and      *)
(* spendIds of the form 'Allocation' + txid + '-0', and the query          *)
(* functions over donations and spends.                                    *)
(***************************************************************************)
KeysDonationIds == {1, ZId(1)}

KeysDonationAmounts == {8}

KeysSpendAmounts == {Num(4)}

KeysSpendIds == {1} \cup {AllocationId(t, 0) : t \in TxIds}

NextKeys ==
  \/ InvokeCreateNGO(NGOs)
  \/ InvokeCreateDonor(Donors)
  \/ InvokeCreateDonation(KeysDonationIds, KeysDonationAmounts, Donors, NGOs)
  \/ InvokeCreateSpend(KeysSpendIds, KeysSpendAmounts, NGOs)
  \/ InvokeQueryAllDonations
  \/ InvokeQueryDonationsForNGO(NGOs)
  \/ InvokeQueryAllSpend
  \/ InvokeQuerySpendForNGO(NGOs)

SpecKeys == Init /\ [][NextKeys]_vars

(***************************************************************************)
(* SpecQuery: queryByString as a function of the store.  The store is any  *)
(* set of entries under donation keys, each the payload of a Donation of   *)
(* one of the NGOs or a payload that does not parse.                       *)
(***************************************************************************)
QueryPayloads ==
  {[docType |-> "donation", donationId |-> 0, donationAmount |-> 8,
    donorUserName |-> 1, ngoRegistrationNumber |-> n] : n \in NGOs}
  \cup {[raw |-> 1]}

\* the payload stored under a donation key: a Donation carries its id
PayloadAt(k, p) == IF IsRaw(p) THEN p ELSE [p EXCEPT !.donationId = k[2]]

QueryStores ==
  UNION {{[k \in D |-> PayloadAt(k, f[k])] : f \in [D -> QueryPayloads]} :
           D \in SUBSET {Key("donation", i, 0) : i \in DonationIds}}

InitQuery ==
  /\ store \in QueryStores
  /\ last = Result("Init", <<>>, 0, FALSE, NoWrites("ok"))
  /\ usedTx = {}
  /\ pending = {}

\* the selectors over the fields ngoRegistrationNumber and donorUserName:
\* none, one or both of them, each with a value
SelectorFields == {"ngoRegistrationNumber", "donorUserName"}

Selectors ==
  UNION {{sel \in [D -> NGOs \cup Donors] :
            \A f \in D : sel[f] \in (IF f = "ngoRegistrationNumber"
                                      THEN NGOs ELSE Donors)} :
           D \in SUBSET SelectorFields}

NextQuery ==
  \/ InvokeQueryAllDonations
  \/ InvokeQueryDonationsForNGO(NGOs)
  \/ ApplyQueryByString("donation", Selectors)
  \/ InvokeQueryDonation(DonationIds)

SpecQuery == InitQuery /\ [][NextQuery]_vars

(***************************************************************************)
(* SpecRounds: allocation over donations of unequal size.  One NGO; the    *)
(* donation with id 1 is of 12, that with id 2 of 2 and every other of     *)
(* 14, so that a spend exhausts the small donation in its first round and  *)
(* the others share the rest; spends of 10, 20 and 28 (28 is what the      *)
(* first three donations add up to).                                       *)
(***************************************************************************)
RoundsDonationAmount(id) ==
  CASE id = 1 -> 12
    [] id = 2 -> 2
    [] OTHER -> 14

RoundsSpendAmounts == {Num(v) : v \in {10, 20, 28}}

NextRounds ==
  \/ InvokeCreateNGO({1})
  \/ InvokeCreateDonor({1})
  \/ \E id \in DonationIds :
       InvokeCreateDonation({id}, {RoundsDonationAmount(id)}, {1}, {1})
  \/ InvokeCreateSpend({1, 2}, RoundsSpendAmounts, {1})

SpecRounds == Init /\ [][NextRounds]_vars

(***************************************************************************)
(* Quantities the properties are stated with.  Sums here are exact.        *)
(***************************************************************************)
\* the keys of the records of a docType
KeysOf(st, docType) == {k \in DOMAIN st : st[k].docType = docType}

\* the spend allocations among a sequence of writes, added exactly
RECURSIVE WrittenAllocationSum(_, _)
WrittenAllocationSum(writes, n) ==
  IF n = 0 THEN 0
  ELSE WrittenAllocationSum(writes, n - 1)
         + (IF writes[n][2].docType = "spendAllocation"
            THEN writes[n][2].spendAllocationAmount ELSE 0)

RECURSIVE SumField(_, _, _)
SumField(st, keys, field) ==
  IF keys = {} THEN 0
  ELSE LET k == CHOOSE x \in keys : TRUE
       IN st[k][field] + SumField(st, keys \ {k}, field)

AllocationsOfDonation(st, d) ==
  {k \in KeysOf(st, "spendAllocation") : st[k].donationId = d}

AllocationsOfSpend(st, s) ==
  {k \in KeysOf(st, "spendAllocation") : st[k].spendId = s}

DonationsOfNGO(st, n) ==
  {k \in KeysOf(st, "donation") : st[k].ngoRegistrationNumber = n}

AllocationsOfNGO(st, n) ==
  {k \in KeysOf(st, "spendAllocation") : st[k].ngoRegistrationNumber = n}

\* available funds of an NGO: donations minus allocations
Available(st, n) ==
  SumField(st, DonationsOfNGO(st, n), "donationAmount")
    - SumField(st, AllocationsOfNGO(st, n), "spendAllocationAmount")

PositiveFinite(amt) == amt.t = "num" /\ amt.v > 0

IsSpend == last.fcn = "createSpend"

\* the invocation passed every check before the funds check
ReachedFundsCheck(l) ==
  /\ l.fcn = "createSpend"
  /\ l.outcome \notin {"ngo_not_found", "already_exists", "invalid_amount",
                       "missing_spendId", "key_does_not_exist"}

(***************************************************************************)
(* Properties.                                                             *)
(***************************************************************************)

\* C1 (Conservation): whenever createSpend succeeds, the spendAllocation
\* amounts it wrote add up exactly to the spendAmount of the request.
C1_Conservation ==
  (IsSpend /\ last.outcome = "ok")
    => WrittenAllocationSum(last.writes, Len(last.writes)) = last.args.spendAmount.v

\* C2 (No over-allocation): in every reachable state, for every Donation the
\* amounts of the SpendAllocation records naming it add up to at most its
\* donationAmount.
C2_NoOverAllocation ==
  \A d \in KeysOf(store, "donation") :
    SumField(store, AllocationsOfDonation(store, store[d].donationId),
             "spendAllocationAmount") <= store[d].donationAmount

\* C3 (Rejection is total): a createSpend invocation that ends with an error,
\* whichever it is, leaves the committed store as it was.
C3_RejectionIsTotal ==
  [][(last'.fcn = "createSpend" /\ last'.outcome # "ok") => store' = store]_vars

\* C3 witness: createSpend failed inside the allocation loop, after it had
\* issued the write of the Spend record.
C3_Witness ==
  /\ IsSpend
  /\ last.outcome = "err_spendPerDonation"
  /\ Len(last.writes) > 0
  /\ ~Has(store, Key("spend", last.args.spendId, 0))

\* C5 (Insufficient funds): a spend request that passes the checks made before
\* the funds check is rejected for insufficient funds exactly when its
\* spendAmount exceeds the NGO's available funds, donations minus allocations.
C5_InsufficientFunds ==
  [][ReachedFundsCheck(last') =>
       ((last'.outcome = "insufficient_funds")
          <=> (last'.args.spendAmount.v
                 > Available(store, last'.args.ngoRegistrationNumber)))]_vars

\* C6 (Invalid amount): a spend request whose spendAmount is not a positive
\* finite number is rejected and nothing is written.
C6_InvalidAmount ==
  [][(last'.fcn = "createSpend" /\ ~PositiveFinite(last'.args.spendAmount))
       => (last'.outcome # "ok" /\ store' = store)]_vars

\* every Spend record names an NGO of the store
SpendNGOsExist ==
  \A s \in KeysOf(store, "spend") :
    Has(store, Key("ngo", store[s].ngoRegistrationNumber, 0))

\* C7 (Missing NGO): a spend request naming an NGO without record is rejected
\* with the NGO-does-not-exist error of createSpend and writes nothing, and
\* every Spend record names an NGO that has a record.
C7_MissingNGO ==
  /\ [][(last'.fcn = "createSpend"
          /\ ~Has(store, Key("ngo", last'.args.ngoRegistrationNumber, 0)))
         => (last'.outcome = "ngo_not_found" /\ store' = store)]_vars
  /\ []SpendNGOsExist

\* C7 witness: a valid spend request was rejected because its NGO has no
\* record, while another NGO has one.
C7_Witness ==
  /\ IsSpend
  /\ last.outcome = "ngo_not_found"
  /\ PositiveFinite(last.args.spendAmount)
  /\ last.args.spendId # 0
  /\ KeysOf(store, "ngo") # {}

\* C8 as stated (Idempotent duplicate rejection): a spend request carrying the
\* (present) spendId of the spend request before it is rejected with the
\* duplicate-id error.
C8_SecondAlwaysDuplicate ==
  (IsSpend /\ last.again /\ last.args.spendId # 0)
    => last.outcome = "already_exists"

\* C8 amended: a spend request carrying the spendId of a committed Spend
\* record is rejected and leaves the store as it was; the error is the
\* duplicate-id error when the NGO of the request has a record and the
\* NGO-does-not-exist error otherwise.
C8_DuplicateRejected ==
  [][(last'.fcn = "createSpend"
       /\ Has(store, Key("spend", last'.args.spendId, 0)))
      => /\ store' = store
         /\ last'.outcome =
              IF Has(store, Key("ngo", last'.args.ngoRegistrationNumber, 0))
              THEN "already_exists" ELSE "ngo_not_found"]_vars

\* C8 witness: the second of two spend requests with one spendId was rejected
\* as a duplicate, the Spend record of the first being in the store.
C8_Witness ==
  /\ IsSpend
  /\ last.again
  /\ last.outcome = "already_exists"
  /\ Has(store, Key("spend", last.args.spendId, 0))

\* C9 (Referential integrity): every SpendAllocation names an existing Donation
\* of its own NGO and an existing Spend of that same NGO.
C9_ReferentialIntegrity ==
  \A a \in KeysOf(store, "spendAllocation") :
    /\ Has(store, Key("donation", store[a].donationId, 0))
    /\ store[Key("donation", store[a].donationId, 0)].docType = "donation"
    /\ store[Key("donation", store[a].donationId, 0)].ngoRegistrationNumber
         = store[a].ngoRegistrationNumber
    /\ Has(store, Key("spend", store[a].spendId, 0))
    /\ store[Key("spend", store[a].spendId, 0)].docType = "spend"
    /\ store[Key("spend", store[a].spendId, 0)].ngoRegistrationNumber
         = store[a].ngoRegistrationNumber

\* C9 witness: a spend of one NGO was allocated while the other NGO holds a
\* donation with funds.
C9_Witness ==
  \E a \in KeysOf(store, "spendAllocation"), d \in KeysOf(store, "donation") :
    /\ store[d].ngoRegistrationNumber # store[a].ngoRegistrationNumber
    /\ store[d].donationAmount > 0

\* C10 (Atomic creation): every Spend record has at least one SpendAllocation,
\* its SpendAllocations add up to its spendAmount, and every SpendAllocation
\* has its Spend record.
C10_AtomicCreation ==
  /\ \A s \in KeysOf(store, "spend") :
       /\ AllocationsOfSpend(store, store[s].spendId) # {}
       /\ SumField(store, AllocationsOfSpend(store, store[s].spendId),
                   "spendAllocationAmount") = store[s].spendAmount.v
  /\ \A a \in KeysOf(store, "spendAllocation") :
       Has(store, Key("spend", store[a].spendId, 0))

\* the record types the ledger is to keep as written
Ledgered == {"donation", "spend", "spendAllocation"}

\* C11 (Append-only and unique): no step changes or removes a committed
\* Donation, Spend or SpendAllocation record; a createDonation or createSpend
\* carrying the id of a committed record of its type is rejected; and no
\* spendAllocation written by a step has the key of a committed record.
C11_AppendOnly ==
  [][(\A k \in DOMAIN store :
        (store[k].docType \in Ledgered)
          => (k \in DOMAIN store' /\ store'[k] = store[k]))
     /\ ((last'.fcn = "createDonation"
           /\ Has(store, Key("donation", last'.args.donationId, 0)))
          => last'.outcome # "ok")
     /\ ((last'.fcn = "createSpend"
           /\ Has(store, Key("spend", last'.args.spendId, 0)))
          => last'.outcome # "ok")
     /\ ((last'.fcn = "createSpend" /\ last'.outcome = "ok")
          => (\A i \in 1..Len(last'.writes) :
                (last'.writes[i][2].docType = "spendAllocation")
                  => ~Has(store, last'.writes[i][1])))]_vars

\* the remaining balance of a donation: its amount minus its allocations
RemainingBalance(st, d) ==
  st[d].donationAmount
    - SumField(st, AllocationsOfDonation(st, st[d].donationId),
               "spendAllocationAmount")

\* the donations of an NGO with positive remaining balance
Eligible(st, n) == {d \in DonationsOfNGO(st, n) : RemainingBalance(st, d) > 0}

\* the spendAllocation records among a sequence of writes, in order
AllocationWrites(writes) ==
  SelectSeq(writes, LAMBDA w : w[2].docType = "spendAllocation")

\* the step is a successful createSpend of a positive amount
SpendCommitted(l) ==
  l.fcn = "createSpend" /\ l.outcome = "ok" /\ PositiveFinite(l.args.spendAmount)

\* C12 (Single-round equal split): when every donation of the NGO with
\* positive remaining balance has at least spendAmount / n left, n being their
\* number, a successful spend writes exactly n SpendAllocation records, one
\* per such donation, each of amount spendAmount / n.
C12_SingleRoundEqualSplit ==
  [][LET ngo == last'.args.ngoRegistrationNumber
         elig == Eligible(store, ngo)
         n == Cardinality(elig)
         amount == last'.args.spendAmount.v
         recs == AllocationWrites(last'.writes)
     IN (SpendCommitted(last')
          /\ \A d \in elig : RemainingBalance(store, d) * n >= amount)
        => /\ Len(recs) = n
           /\ \A d \in elig : \E i \in 1..Len(recs) :
                recs[i][2].donationId = store[d].donationId
           /\ \A i \in 1..Len(recs) :
                recs[i][2].spendAllocationAmount = FDiv(amount, n)]_vars

\* One round as the specification describes it, from the i-th donation on:
\* every donation with positive remaining balance at the round start receives
\* min(share, remaining balance).  c is [bal, rem, recs]: the remaining
\* balance per donation key, the amount still to allocate and the
\* allocations <<donationId, amount>> so far, all exact.
RECURSIVE RoundBySpec(_, _, _, _, _)
RoundBySpec(st, dons, share, i, c) ==
  IF i > Len(dons) THEN c
  ELSE LET d == dons[i]
           amount == IF c.bal[d] >= share THEN share ELSE c.bal[d]
           next == IF c.bal[d] > 0
                   THEN [bal |-> [c.bal EXCEPT ![d] = @ - amount],
                         rem |-> c.rem - amount,
                         recs |-> Append(c.recs, <<st[d].donationId, amount>>)]
                   ELSE c
       IN RoundBySpec(st, dons, share, i + 1, next)

\* the rounds as the specification describes them: share is the amount still
\* to allocate divided by the number of eligible donations at the round start
RECURSIVE LoopBySpec(_, _, _, _)
LoopBySpec(st, dons, c, rounds) ==
  LET n == Cardinality({i \in 1..Len(dons) : c.bal[dons[i]] > 0})
  IN IF c.rem <= 0 \/ n = 0 \/ rounds >= MaxRounds THEN c.recs
     ELSE IF FDiv(c.rem, n) = 0 THEN c.recs
     ELSE LoopBySpec(st, dons,
            RoundBySpec(st, dons, FDiv(c.rem, n), 1, c), rounds + 1)

\* the allocations <<donationId, amount>> the specification's rounds give for
\* a spend of amount against the NGO's donations, in ascending key order
AllocationsBySpec(st, ngo, amount) ==
  LET dons == SortKeys(DonationsOfNGO(st, ngo))
  IN LoopBySpec(st, dons,
       [bal |-> [d \in DonationsOfNGO(st, ngo) |-> RemainingBalance(st, d)],
        rem |-> amount, recs |-> <<>>], 0)

\* C13 (Exhaustion and redistribution): the SpendAllocation records of a
\* successful spend are those of the rounds in which every eligible donation
\* receives min(share, remaining balance), share being the amount still to
\* allocate divided by the number of donations eligible at the round start,
\* and a donation that received its whole remaining balance receives nothing
\* in a later round.
C13_ExhaustionAndRedistribution ==
  [][SpendCommitted(last')
      => LET recs == AllocationWrites(last'.writes)
             bySpec == AllocationsBySpec(store,
                         last'.args.ngoRegistrationNumber,
                         last'.args.spendAmount.v)
         IN /\ Len(recs) = Len(bySpec)
            /\ \A i \in 1..Len(recs) :
                 <<recs[i][2].donationId, recs[i][2].spendAllocationAmount>>
                   = bySpec[i]]_vars

\* the keys of a sequence of rows are in ascending order, each once
Ascending(rows) ==
  \A i, j \in 1..Len(rows) : i < j => KeyLess(rows[i].Key, rows[j].Key)

\* the rows are the records under the given keys, each once, in key order
RowsAre(rows, keys) ==
  /\ {rows[i].Key : i \in 1..Len(rows)} = keys
  /\ \A i \in 1..Len(rows) : rows[i].Record = store[rows[i].Key]
  /\ Ascending(rows)

\* C14 (Query filtering): the query with only docType = donation returns
\* every stored Donation, whatever its NGO, and the query with the additional
\* field ngoRegistrationNumber returns a Donation exactly when its
\* ngoRegistrationNumber is the selector's, each record once, in ascending key
\* order.
C14_QueryFiltering ==
  /\ last.fcn = "queryAllDonations"
       => RowsAre(last.rows, KeysOf(store, "donation"))
  /\ last.fcn = "queryDonationsForNGO"
       => RowsAre(last.rows, DonationsOfNGO(store, last.args.ngoRegistrationNumber))

\* every row of a query result is a record of the docType
OnlyOfType(rows, docType) ==
  \A i \in 1..Len(rows) : rows[i].Record.docType = docType

SpendsOfNGO(st, n) ==
  {k \in KeysOf(st, "spend") : st[k].ngoRegistrationNumber = n}

\* C15 (Type purity of queries): queryAllSpend returns exactly the Spend
\* records of the store and querySpendForNGO exactly those of the given NGO,
\* no record of another docType among them; and the donation and
\* spendAllocation queries allocateSpend makes for an NGO return only
\* Donation and only SpendAllocation records.
C15_TypePurity ==
  /\ last.fcn = "queryAllSpend"
       => (OnlyOfType(last.rows, "spend")
            /\ RowsAre(last.rows, KeysOf(store, "spend")))
  /\ last.fcn = "querySpendForNGO"
       => (OnlyOfType(last.rows, "spend")
            /\ RowsAre(last.rows,
                       SpendsOfNGO(store, last.args.ngoRegistrationNumber)))
  /\ \A n \in NGOs :
       /\ OnlyOfType(queryByString(store, "donation",
                                   "ngoRegistrationNumber", n), "donation")
       /\ OnlyOfType(queryByString(store, "spendAllocation",
                                   "ngoRegistrationNumber", n), "spendAllocation")

C17_Isolation ==
  /\ \A k \in KeysOf(store, "spend") :
       SumField(store, AllocationsOfSpend(store, store[k].spendId),
                "spendAllocationAmount") = store[k].spendAmount.v
  /\ \A d \in KeysOf(store, "donation") :
       RemainingBalance(store, d) >= 0

\* C18 (Missing spend id): a spend request whose spendId is absent or empty
\* is rejected and leaves the store as it was.
C18_MissingSpendId ==
  [][(last'.fcn = "createSpend" /\ last'.args.spendId = 0)
       => (last'.outcome # "ok" /\ store' = store)]_vars

\* C18 witness: a request without spendId, with a valid amount and for an
\* NGO with funds, was rejected by the spendId check of allocateSpend.
C18_Witness ==
  /\ IsSpend
  /\ last.args.spendId = 0
  /\ last.outcome = "missing_spendId"
  /\ PositiveFinite(last.args.spendAmount)
  /\ Available(store, last.args.ngoRegistrationNumber)
       >= last.args.spendAmount.v

\* the invocation entered the allocation loop
PassedFundsCheck(l) ==
  ReachedFundsCheck(l) /\ l.outcome # "insufficient_funds"

\* C19 (Termination): for a spend that passes the insufficient-funds check
\* the allocation loop ends after at most n rounds, n being the number of the
\* NGO's donations with positive remaining balance at the start; and since
\* every round but the last makes an eligible donation ineligible, a
\* successful spend takes at most one round more than the number of donations
\* it exhausted.
C19_Termination ==
  [][LET ngo == last'.args.ngoRegistrationNumber
         elig == Eligible(store, ngo)
         exhausted == {d \in elig : RemainingBalance(store', d) <= 0}
     IN (PassedFundsCheck(last') /\ PositiveFinite(last'.args.spendAmount))
        => /\ last'.outcome # "unbounded"
           /\ last'.rounds <= Cardinality(elig)
           /\ (last'.outcome = "ok")
                => (last'.rounds <= Cardinality(exhausted) + 1)]_vars

InLoopErrors ==
  {"err_spendAmount", "err_numberOfDonations", "err_spendPerDonation"}

\* C20 (Invariant failure is unreachable): no spend request ends with one of
\* the errors raised inside the allocation loop (invalid spendAmount,
\* numberOfDonations < 1, invalid spendPerDonation).
C20_NoInLoopError ==
  IsSpend => last.outcome \notin InLoopErrors

\* the allocation loop ends within MaxRounds rounds wherever it is run
LoopBoundNotReached == last.outcome # "unbounded"

\* C21 (Validate before write): in an execution of allocateSpend no putState
\* is issued before every check that can reject the request has passed, the
\* checks of each allocation round included; so a rejected spend request has
\* issued no write.
C21_ValidateBeforeWrite ==
  (IsSpend /\ last.outcome # "ok") => last.writes = <<>>

\* the spendAllocation writes, in the order issued, carry the ids txid-0,
\* txid-1, ... and each is written under the key 'spendAllocation' + its id
CountedFromZero(writes, txid) ==
  LET recs == AllocationWrites(writes)
  IN \A k \in 1..Len(recs) :
       /\ recs[k][2].spendAllocationId = <<txid, k - 1>>
       /\ recs[k][1] = Key("spendAllocation", txid, k - 1)

\* C22 (Deterministic identifiers): the k-th SpendAllocation record of an
\* invocation (k = 0, 1, ... in creation order across all rounds) has the id
\* transaction id + '-' + k and the key 'spendAllocation' + that id, so the
\* ids of one invocation are pairwise distinct.
C22_DeterministicIds ==
  IsSpend =>
    LET recs == AllocationWrites(last.writes)
    IN /\ \E t \in TxIds : CountedFromZero(last.writes, t)
       /\ last.outcome = "ok" => CountedFromZero(last.writes, last.txid)
       /\ \A i, j \in 1..Len(recs) :
            i # j => /\ recs[i][2].spendAllocationId # recs[j][2].spendAllocationId
                     /\ recs[i][1] # recs[j][1]

\* C22 witness: a successful spend wrote spendAllocation records in more
\* than one round, more records than the NGO has donations.
C22_Witness ==
  /\ IsSpend
  /\ last.outcome = "ok"
  /\ last.rounds > 1
  /\ Len(AllocationWrites(last.writes)) > MaxDonation

\* The values of [spendAmount, spent, recordCounter, writes] of allocateSpend
\* at the start of every round its while loop executes, followed by the
\* values with which the loop ends.
RECURSIVE RoundStarts(_, _, _, _, _)
RoundStarts(spend, txid, dons, c, rounds) ==
  IF c.spendAmount <= 0 \/ rounds >= MaxRounds THEN <<c>>
  ELSE IF ~(NumberOfDonations(dons, c.spent) > 0) THEN <<c>>
  ELSE LET spendPerDonation ==
             FDiv(c.spendAmount, NumberOfDonations(dons, c.spent))
       IN IF spendPerDonation = 0 THEN <<c>>
          ELSE <<c>> \o RoundStarts(spend, txid, dons,
                          AllocateRound(spend, txid, dons, spendPerDonation, 1, c),
                          rounds + 1)

\* the rounds of allocateSpend for a request that reaches the loop in state st
RoundsOf(st, spend, txid) ==
  LET ngo == spend.ngoRegistrationNumber
      dons == queryByString(st, "donation", "ngoRegistrationNumber", ngo)
      allocs == queryByString(st, "spendAllocation", "ngoRegistrationNumber", ngo)
  IN RoundStarts(spend, txid, dons,
       [spendAmount |-> spend.spendAmount.v,
        spent |-> DonationSpendMap(allocs, Len(allocs)),
        recordCounter |-> 0,
        writes |-> <<<<Key("spend", spend.spendId, 0), SpendRecord(spend)>>>>],
       0)

\* the writes issued in round r of the rounds t
RoundWrites(t, r) ==
  SubSeq(t[r + 1].writes, Len(t[r].writes) + 1, Len(t[r + 1].writes))

\* C23 (Fixed processing order): within every allocation round the donations
\* are visited in ascending order of their key, so of two records written in
\* one round the one of the donation with the smaller key has the smaller
\* counter suffix.
C23_FixedOrder ==
  [][PassedFundsCheck(last') =>
       \A txid \in IF last'.outcome = "ok" THEN {last'.txid} ELSE {MaxTx} :
         \A t \in {RoundsOf(store, last'.args, txid)} :
           /\ (last'.outcome = "ok")
                => (Len(t) = last'.rounds + 1
                     /\ SubSeq(last'.writes, 1, Len(t[Len(t)].writes))
                          = t[Len(t)].writes)
           /\ \A r \in 1..(Len(t) - 1) :
                \A w \in {RoundWrites(t, r)} :
                  \A i, j \in 1..Len(w) :
                    (w[i][2].spendAllocationId[2] < w[j][2].spendAllocationId[2])
                      <=> KeyLess(Key("donation", w[i][2].donationId, 0),
                                  Key("donation", w[j][2].donationId, 0))]_vars

\* C23 witness: a successful spend wrote, one right after the other, a record
\* for the donation with the smallest key and one for the donation with the
\* largest, the donation between them being in the store without funds left.
C23_Witness ==
  /\ IsSpend
  /\ last.outcome = "ok"
  /\ Has(store, Key("donation", 2, 0))
  /\ LET recs == AllocationWrites(last.writes)
     IN \E i \in 1..(Len(recs) - 1) :
          recs[i][2].donationId = 1 /\ recs[i + 1][2].donationId = MaxDonation

\* the amounts of the spendAllocation records for donation d among the first
\* n writes, added exactly
RECURSIVE WrittenToDonation(_, _, _)
WrittenToDonation(writes, d, n) ==
  IF n = 0 THEN 0
  ELSE WrittenToDonation(writes, d, n - 1)
         + (IF writes[n][2].docType = "spendAllocation"
               /\ writes[n][2].donationId = d
            THEN writes[n][2].spendAllocationAmount ELSE 0)

\* the remaining balance of the donation with id d when the writes have been
\* issued on top of the state st
BalanceAfter(st, writes, d) ==
  RemainingBalance(st, Key("donation", d, 0))
    - WrittenToDonation(writes, d, Len(writes))

\* C24 (Positive allocations only): every SpendAllocation record written has
\* spendAllocationAmount > 0, and a donation with no remaining balance at the
\* start of a round gets no record in that round.
C24_PositiveAllocations ==
  [][PassedFundsCheck(last') =>
       \A t \in {RoundsOf(store, last'.args, MaxTx)} :
         \A r \in 1..(Len(t) - 1) :
           \A w \in {RoundWrites(t, r)} :
             \A i \in 1..Len(w) :
               /\ w[i][2].spendAllocationAmount > 0
               /\ BalanceAfter(store, t[r].writes, w[i][2].donationId) > 0]_vars

\* the remaining balances of the donations ids that are positive when the
\* writes have been issued on top of the state st, added exactly
RECURSIVE EligibleBalance(_, _, _)
EligibleBalance(st, writes, ids) ==
  IF ids = {} THEN 0
  ELSE LET d == CHOOSE x \in ids : TRUE
           b == BalanceAfter(st, writes, d)
       IN (IF b > 0 THEN b ELSE 0) + EligibleBalance(st, writes, ids \ {d})

\* C25 (Loop invariant): whenever the allocation loop is at its head the
\* amount still to allocate is >= 0; at the start of every round it is at
\* most the sum of the remaining balances of the NGO's eligible donations;
\* and the amounts allocated in a round add up to at most the amount still to
\* allocate at the start of that round.
C25_LoopInvariant ==
  [][PassedFundsCheck(last') =>
       \A t \in {RoundsOf(store, last'.args, MaxTx)} :
         /\ \A r \in 1..Len(t) : t[r].spendAmount >= 0
         /\ \A r \in 1..(Len(t) - 1) :
              /\ t[r].spendAmount
                   <= EligibleBalance(store, t[r].writes,
                        {store[k].donationId :
                           k \in DonationsOfNGO(store,
                                   last'.args.ngoRegistrationNumber)})
              /\ \A w \in {RoundWrites(t, r)} :
                   WrittenAllocationSum(w, Len(w)) <= t[r].spendAmount]_vars

\* the Donation and SpendAllocation records of the NGOs other than ngo, and
\* their available funds, are the same in the states s1 and s2
OtherNGOsUntouched(s1, s2, ngo) ==
  \A n \in NGOs \ {ngo} :
    /\ Available(s2, n) = Available(s1, n)
    /\ DonationsOfNGO(s2, n) = DonationsOfNGO(s1, n)
    /\ AllocationsOfNGO(s2, n) = AllocationsOfNGO(s1, n)
    /\ \A k \in DonationsOfNGO(s1, n) \cup AllocationsOfNGO(s1, n) :
         s2[k] = s1[k]

\* C26 (Effect on available funds): a successful spend of amount a for an NGO
\* decreases the available funds of that NGO, donations minus allocations, by
\* exactly a and leaves the available funds, the Donation records and the
\* SpendAllocation records of every other NGO as they were.
C26_EffectOnAvailableFunds ==
  [][SpendCommitted(last') =>
       /\ Available(store', last'.args.ngoRegistrationNumber)
            = Available(store, last'.args.ngoRegistrationNumber)
                - last'.args.spendAmount.v
       /\ OtherNGOsUntouched(store, store', last'.args.ngoRegistrationNumber)]_vars

\* every donation of the NGO has remaining balance 0 in the state st
Exhausted(st, ngo) ==
  /\ DonationsOfNGO(st, ngo) # {}
  /\ \A d \in DonationsOfNGO(st, ngo) : RemainingBalance(st, d) = 0

\* C27 (Full exhaustion at the boundary): a spend whose amount equals the
\* available funds of its NGO succeeds and leaves every donation of the NGO
\* with remaining balance 0; and while every donation of an NGO has remaining
\* balance 0, a spend of a positive amount for it is rejected for insufficient
\* funds.
C27_FullExhaustion ==
  [][(ReachedFundsCheck(last') /\ PositiveFinite(last'.args.spendAmount))
      => LET ngo == last'.args.ngoRegistrationNumber
         IN /\ (last'.args.spendAmount.v = Available(store, ngo))
                 => (last'.outcome = "ok" /\ Exhausted(store', ngo))
            /\ Exhausted(store, ngo)
                 => last'.outcome = "insufficient_funds"]_vars

\* C28 (No duplicates in query results): for every selector, docType plus
\* any number of further fields, each stored record appears at most once among
\* the rows queryByString returns, and only if it matches every further field
\* of the selector.
C28_NoDuplicateRows ==
  last.fcn = "queryByString" =>
    /\ \A i, j \in 1..Len(last.rows) :
         i # j => last.rows[i].Key # last.rows[j].Key
    /\ \A i \in 1..Len(last.rows) :
         \A f \in DOMAIN last.args.selector :
           Matches(last.rows[i].Record, f, last.args.selector[f])

\* C29 (Point lookup): a lookup of a key that is absent answers with a
\* not-found outcome and does not throw, a lookup of a key that is present
\* returns exactly the stored payload, and no lookup changes the store.
C29_PointLookup ==
  [][last'.fcn = "queryDonation" =>
       LET key == Key("donation", last'.args.donationId, 0)
       IN /\ store' = store
          /\ last'.outcome = "ok"
          /\ last'.rows = IF Has(store, key) THEN <<store[key]>> ELSE <<>>]_vars

\* the parts of C29 about a present key and about the store
C29_PresentKeyAndStore ==
  [][last'.fcn = "queryDonation" =>
       LET key == Key("donation", last'.args.donationId, 0)
       IN /\ store' = store
          /\ Has(store, key) =>
               (last'.outcome = "ok" /\ last'.rows = <<store[key]>>)]_vars

\* the NGO and the donor a Donation record names are both in the store
NamesExistingNGOAndDonor(st, rec) ==
  /\ Has(st, Key("ngo", rec.ngoRegistrationNumber, 0))
  /\ Has(st, Key("donor", rec.donorUserName, 0))

\* C30 (Donation prerequisites): a createDonation whose NGO or whose donor is
\* not in the store is rejected and leaves the store unchanged, and every
\* Donation in the store names an NGO and a donor that are in the store.
C30_DonationPrerequisites ==
  [][/\ (last'.fcn = "createDonation"
          /\ ~NamesExistingNGOAndDonor(store, last'.args))
         => (last'.outcome # "ok" /\ store' = store)
     /\ \A k \in KeysOf(store', "donation") :
          NamesExistingNGOAndDonor(store', store'[k])]_vars

\* a createDonation was rejected because its donor is missing although its NGO
\* exists
C30_Witness ==
  /\ last.fcn = "createDonation"
  /\ last.outcome = "donor_not_found"
  /\ Has(store, Key("ngo", last.args.ngoRegistrationNumber, 0))
  /\ ~Has(store, Key("donor", last.args.donorUserName, 0))

====
